---- MODULE Spec2Model ----
(***************************************************************************)
(* State-machine model of the ingestion and AI indexing pipeline:          *)
(* the relational store (Media, Face, Person, ProcessingJob), the request  *)
(* handlers that change it (people.py, jobs.py, admin.py) and the Celery   *)
(* worker tasks (tasks.py).                                                *)
(*                                                                         *)
(* Face encodings are one-dimensional integers in units of 0.01, so the    *)
(* Euclidean distance is the absolute difference and the tolerance 0.6 is  *)
(* 60.  Every encoding of the file system is a multiple of 60, which keeps *)
(* the arithmetic mean of up to six encodings an integer.                  *)
(***************************************************************************)
EXTENDS Integers, Sequences, FiniteSets, Bags, TLC

VARIABLES
    media,      \* Media rows:          id -> record
    faces,      \* Face rows:           id -> record
    persons,    \* Person rows:         id -> record
    jobs,       \* ProcessingJob rows:  id -> record
    tasks,      \* Celery task executions: id -> the locals of the running task
    nextId,     \* the next fresh primary key of every table (keys are never reused)
    requests,   \* how many people requests and clustering runs have been served
    calls,      \* the request handlers in flight between their reads and their commit: a bag of their locals
    ev          \* the last operation that acted and its inputs (history)

vars == <<media, faces, persons, jobs, tasks, nextId, requests, calls, ev>>

-----------------------------------------------------------------------------
(* Bounds of the model *)

\* the people requests and clustering runs of one behaviour
MaxRequests == 4
\* the jobs of one behaviour of the AI pipeline
MaxAIJobs == 2
\* the jobs of one behaviour of the scanner
MaxScanJobs == 2
\* the encodings of one call of a face_service function
MaxFaces == 4
\* the executions of one task message, re-deliveries included
MaxDeliveries == 2
\* the known persons of one call of find_matching_person
MaxKnown == 2
\* the paths of the tree and of the signature store of one detect_changes
MaxTree == 2

-----------------------------------------------------------------------------
(* Program constants and the environment *)

NULL == 0
NoUser == "none"
NoPath == "none"
Users == {"u1", "u2"}
Tolerance == 60

Paths == {"a", "b", "c", "x"}

\* The NAS tree: for every file its owner's folder, its content hash, its
\* media type and the face encodings a successful detection finds in it.
\* "a" and "b" hold the same bytes.
FS ==
    [p \in Paths |->
        CASE p = "a" -> [owner |-> "u1", file_hash |-> 1, media_type |-> "photo", faces |-> <<0, 60>>]
          [] p = "b" -> [owner |-> "u1", file_hash |-> 1, media_type |-> "photo", faces |-> <<0, 60>>]
          [] p = "c" -> [owner |-> "u1", file_hash |-> 2, media_type |-> "photo", faces |-> <<120>>]
          [] p = "x" -> [owner |-> "u2", file_hash |-> 1, media_type |-> "photo", faces |-> <<0>>]]

-----------------------------------------------------------------------------
(* Helpers *)

Max(a, b) == IF a >= b THEN a ELSE b
Abs(a) == IF a >= 0 THEN a ELSE 0 - a

\* Every order in which the rows of S can come back from a query without ORDER BY.
RECURSIVE Orders(_)
Orders(S) ==
    IF S = {} THEN {<<>>}
    ELSE UNION {{<<x>> \o s : s \in Orders(S \ {x})} : x \in S}

RECURSIVE SumOver(_, _)
SumOver(f, S) ==
    IF S = {} THEN 0
    ELSE LET x == CHOOSE y \in S : TRUE IN f[x] + SumOver(f, S \ {x})

Range(s) == {s[i] : i \in 1..Len(s)}

FacesOfPerson(fs, p) == {f \in DOMAIN fs : fs[f].person_id = p}
FacesOfMedia(fs, m) == {f \in DOMAIN fs : fs[f].media_id = m}

NoEvent == [op |-> "none", subj |-> NULL, det |-> NULL]

-----------------------------------------------------------------------------
(* face_service.py *)

compare_faces_Loose(known_encoding, unknown_encoding) ==
    LET distance == Abs(known_encoding - unknown_encoding)
    IN [is_match |-> distance <= 2 * Tolerance, distance |-> distance]

compare_faces(known_encoding, unknown_encoding) ==
    LET distance == Abs(known_encoding - unknown_encoding)
    IN [is_match |-> distance <= Tolerance, distance |-> distance]

RECURSIVE find_matching_loop(_, _, _, _, _, _)
find_matching_loop(face_encoding, order, enc, k, best_match, best_distance) ==
    IF k > Len(order) THEN best_match
    ELSE LET c == compare_faces(enc[order[k]], face_encoding)
         IN IF c.is_match /\ (best_match = NULL \/ c.distance < best_distance)
            THEN find_matching_loop(face_encoding, order, enc, k + 1, order[k], c.distance)
            ELSE find_matching_loop(face_encoding, order, enc, k + 1, best_match, best_distance)

\* known_encodings is the dict {person id: encoding}; order is its iteration order.
\* The result is the matched person id, or NULL.
find_matching_person(face_encoding, order, enc) ==
    IF Len(order) = 0 THEN NULL
    ELSE find_matching_loop(face_encoding, order, enc, 1, NULL, 0)

RECURSIVE cluster_inner(_, _, _, _, _)
cluster_inner(encs, i, j, cluster, assigned) ==
    IF j > Len(encs) THEN [cluster |-> cluster, assigned |-> assigned]
    ELSE IF assigned[j] THEN cluster_inner(encs, i, j + 1, cluster, assigned)
    ELSE IF compare_faces(encs[i], encs[j]).is_match
         THEN cluster_inner(encs, i, j + 1, Append(cluster, j), [assigned EXCEPT ![j] = TRUE])
         ELSE cluster_inner(encs, i, j + 1, cluster, assigned)

RECURSIVE cluster_outer(_, _, _, _)
cluster_outer(encs, i, assigned, clusters) ==
    IF i > Len(encs) THEN clusters
    ELSE IF assigned[i] THEN cluster_outer(encs, i + 1, assigned, clusters)
    ELSE LET r == cluster_inner(encs, i, i + 1, <<i>>, [assigned EXCEPT ![i] = TRUE])
         IN cluster_outer(encs, i + 1, r.assigned, Append(clusters, r.cluster))

\* The clusters as sequences of (1-based) indices into face_encodings.
cluster_faces(face_encodings) ==
    IF Len(face_encodings) = 0 THEN <<>>
    ELSE cluster_outer(face_encodings, 1, [k \in 1..Len(face_encodings) |-> FALSE], <<>>)

RECURSIVE SumSeq(_)
SumSeq(s) == IF Len(s) = 0 THEN 0 ELSE Head(s) + SumSeq(Tail(s))

compute_average_encoding(encodings) == SumSeq(encodings) \div Len(encodings)

-----------------------------------------------------------------------------
(* people.py: the handlers, each one database transaction *)

\* One more request is served.
Served == requests < MaxRequests /\ requests' = requests + 1

DecrementOld_Skipped(ps, old) == ps

\* old_person.face_count = max(0, old_person.face_count - 1), when the face
\* was assigned and that person still exists.
DecrementOld(ps, old) ==
    IF old # NULL /\ old \in DOMAIN ps
    THEN [ps EXCEPT ![old].face_count = Max(0, @ - 1)]
    ELSE ps

AssignFace(u, f, p) ==
    /\ f \in DOMAIN faces
    /\ media[faces[f].media_id].owner_id = u
    /\ p \in DOMAIN persons
    /\ persons[p].owner_id = u
    /\ persons' = [DecrementOld(persons, faces[f].person_id) EXCEPT ![p].face_count = @ + 1]
    /\ faces' = [faces EXCEPT ![f].person_id = p]
    /\ UNCHANGED calls
    /\ ev' = [op |-> "assign_face", subj |-> NULL, det |-> NULL]
    /\ Served
    /\ UNCHANGED <<media, jobs, tasks, nextId>>

UnassignFace(u, f) ==
    /\ f \in DOMAIN faces
    /\ media[faces[f].media_id].owner_id = u
    /\ faces[f].person_id # NULL
    /\ persons' = DecrementOld(persons, faces[f].person_id)
    /\ faces' = [faces EXCEPT ![f].person_id = NULL]
    /\ UNCHANGED calls
    /\ ev' = [op |-> "unassign_face", subj |-> NULL, det |-> NULL]
    /\ Served
    /\ UNCHANGED <<media, jobs, tasks, nextId>>

CreatePersonFromFace(u, f) ==
    /\ f \in DOMAIN faces
    /\ media[faces[f].media_id].owner_id = u
    /\ Served
    /\ LET p == nextId.person
           person == [owner_id |-> u, face_embedding |-> faces[f].encoding,
                      cover_face_id |-> f, face_count |-> 1]
       IN /\ persons' = DecrementOld(persons, faces[f].person_id) @@ (p :> person)
          /\ faces' = [faces EXCEPT ![f].person_id = p]
          /\ nextId' = [nextId EXCEPT !.person = @ + 1]
          /\ UNCHANGED calls
          /\ ev' = [op |-> "create_person_from_face", subj |-> NULL, det |-> NULL]
    /\ UNCHANGED <<media, jobs, tasks>>

\* What db.commit() leaves in a column of a row the session loaded: the unit
\* of work writes the attribute only when its value differs from the loaded one.
Flushed(loaded, value, stored) == IF value = loaded THEN stored ELSE value

\* assign_face up to its last read: the face, the person, and the person the
\* face is assigned to now are loaded into the session.
AssignFaceBegin(u, f, p) ==
    /\ f \in DOMAIN faces
    /\ media[faces[f].media_id].owner_id = u
    /\ p \in DOMAIN persons
    /\ persons[p].owner_id = u
    /\ Served
    /\ LET old == IF faces[f].person_id \in DOMAIN persons THEN faces[f].person_id ELSE NULL
       IN calls' = calls (+) SetToBag({[handler |-> "assign_face", face |-> f, person |-> p,
                                        person_id |-> faces[f].person_id,
                                        old |-> old,
                                        old_count |-> IF old = NULL THEN 0
                                                      ELSE persons[old].face_count,
                                        count |-> persons[p].face_count]})
    /\ ev' = [op |-> "assign_face_read", subj |-> NULL, det |-> NULL]
    /\ UNCHANGED <<media, faces, persons, jobs, tasks, nextId>>

\* assign_face from there: the counts are computed from the loaded values and
\* db.commit() writes them and the face's person_id.  A loaded row that has
\* been deleted since makes the commit fail, and nothing is written.
AssignFaceEnd(c) ==
    /\ BagIn(c, calls)
    /\ c.handler = "assign_face"
    /\ calls' = calls (-) SetToBag({c})
    /\ LET dec == Max(0, c.old_count - 1)
           ps1 == IF c.old # NULL /\ c.old # c.person /\ c.old \in DOMAIN persons
                  THEN [persons EXCEPT ![c.old].face_count = Flushed(c.old_count, dec, @)]
                  ELSE persons
           value == (IF c.old = c.person THEN dec ELSE c.count) + 1
       IN IF /\ c.face \in DOMAIN faces
             /\ c.person \in DOMAIN persons
             /\ ~ (c.old # NULL /\ c.old # c.person /\ c.old \notin DOMAIN persons
                                /\ dec # c.old_count)
          THEN /\ persons' = [ps1 EXCEPT ![c.person].face_count = Flushed(c.count, value, @)]
               /\ faces' = [faces EXCEPT ![c.face].person_id =
                                             Flushed(c.person_id, c.person, @)]
          ELSE UNCHANGED <<persons, faces>>
    /\ ev' = [op |-> "assign_face", subj |-> NULL, det |-> NULL]
    /\ UNCHANGED <<media, jobs, tasks, nextId, requests>>

\* unassign_face up to its last read
UnassignFaceBegin(u, f) ==
    /\ f \in DOMAIN faces
    /\ media[faces[f].media_id].owner_id = u
    /\ faces[f].person_id # NULL
    /\ Served
    /\ LET old == IF faces[f].person_id \in DOMAIN persons THEN faces[f].person_id ELSE NULL
       IN calls' = calls (+) SetToBag({[handler |-> "unassign_face", face |-> f,
                                        person_id |-> faces[f].person_id,
                                        old |-> old,
                                        old_count |-> IF old = NULL THEN 0
                                                      ELSE persons[old].face_count]})
    /\ ev' = [op |-> "unassign_face_read", subj |-> NULL, det |-> NULL]
    /\ UNCHANGED <<media, faces, persons, jobs, tasks, nextId>>

\* unassign_face from there
UnassignFaceEnd(c) ==
    /\ BagIn(c, calls)
    /\ c.handler = "unassign_face"
    /\ calls' = calls (-) SetToBag({c})
    /\ IF /\ c.face \in DOMAIN faces
          /\ ~ (c.old # NULL /\ c.old \notin DOMAIN persons
                             /\ Max(0, c.old_count - 1) # c.old_count)
       THEN /\ persons' = IF c.old # NULL /\ c.old \in DOMAIN persons
                          THEN [persons EXCEPT ![c.old].face_count =
                                    Flushed(c.old_count, Max(0, c.old_count - 1), @)]
                          ELSE persons
            /\ faces' = [faces EXCEPT ![c.face].person_id = Flushed(c.person_id, NULL, @)]
       ELSE UNCHANGED <<persons, faces>>
    /\ ev' = [op |-> "unassign_face", subj |-> NULL, det |-> NULL]
    /\ UNCHANGED <<media, jobs, tasks, nextId, requests>>

MergedCount_Dropped(face_count, total_faces) == face_count

\* target_person.face_count += total_faces
MergedCount(face_count, total_faces) == face_count + total_faces

\* source_person_ids is taken as the set S of its elements: a list that names
\* a person twice, a missing person or another user's person is rejected.
MergePeople(u, t, S) ==
    /\ t \in DOMAIN persons
    /\ persons[t].owner_id = u
    /\ S # {}
    /\ \A s \in S : s \in DOMAIN persons /\ persons[s].owner_id = u
    /\ LET moved == S \ {t}
           total_faces == SumOver([s \in moved |-> persons[s].face_count], moved)
       IN /\ faces' = [f \in DOMAIN faces |->
                          IF faces[f].person_id \in moved
                          THEN [faces[f] EXCEPT !.person_id = t]
                          ELSE faces[f]]
          /\ persons' = [q \in DOMAIN persons \ moved |->
                          IF q = t
                          THEN [persons[q] EXCEPT !.face_count = MergedCount(@, total_faces)]
                          ELSE persons[q]]
    /\ UNCHANGED calls
    /\ ev' = [op |-> "merge_people", subj |-> t, det |-> S]
    /\ Served
    /\ UNCHANGED <<media, jobs, tasks, nextId>>

UnassignAll_Skipped(fs, p) == fs

\* Face.__table__.update().where(Face.person_id == person_id).values(person_id=None)
UnassignAll(fs, p) ==
    [f \in DOMAIN fs |->
        IF fs[f].person_id = p THEN [fs[f] EXCEPT !.person_id = NULL] ELSE fs[f]]

DeletePerson(u, p) ==
    /\ p \in DOMAIN persons
    /\ persons[p].owner_id = u
    /\ faces' = UnassignAll(faces, p)
    /\ persons' = [q \in DOMAIN persons \ {p} |-> persons[q]]
    /\ UNCHANGED calls
    /\ ev' = [op |-> "delete_person", subj |-> NULL, det |-> NULL]
    /\ Served
    /\ UNCHANGED <<media, jobs, tasks, nextId>>

-----------------------------------------------------------------------------
(* tasks.py: cluster_faces_task *)

\* The persons the clusters with two or more faces become: a sequence of
\* [members: face ids, encoding: the average] in cluster order.
NewClusters(order) ==
    LET encodings == [i \in 1..Len(order) |-> faces[order[i]].encoding]
        clusters == cluster_faces(encodings)
    IN SelectSeq([c \in 1..Len(clusters) |->
                    [members |-> [k \in 1..Len(clusters[c]) |-> order[clusters[c][k]]],
                     encoding |-> compute_average_encoding(
                                    [k \in 1..Len(clusters[c]) |-> encodings[clusters[c][k]]])]],
                 LAMBDA c : Len(c.members) >= 2)

ClusterFacesTask(u) ==
    LET unassigned == {f \in DOMAIN faces :
                          media[faces[f].media_id].owner_id = u /\ faces[f].person_id = NULL}
    IN /\ unassigned # {}
       /\ Served
       /\ \E new \in {NewClusters(order) : order \in Orders(unassigned)} :
            LET base == nextId.person - 1
                IdOf(f) == CHOOSE c \in 1..Len(new) : f \in Range(new[c].members)
                clustered == UNION {Range(new[c].members) : c \in 1..Len(new)}
            IN /\ persons' = persons @@
                     [p \in (base + 1)..(base + Len(new)) |->
                        [owner_id |-> u,
                         face_embedding |-> new[p - base].encoding,
                         cover_face_id |-> new[p - base].members[1],
                         face_count |-> Len(new[p - base].members)]]
               /\ faces' = [f \in DOMAIN faces |->
                              IF f \in clustered
                              THEN [faces[f] EXCEPT !.person_id = base + IdOf(f)]
                              ELSE faces[f]]
               /\ nextId' = [nextId EXCEPT !.person = @ + Len(new)]
               /\ UNCHANGED calls
               /\ ev' = [op |-> "cluster_faces", subj |-> NULL, det |-> NULL]
       /\ UNCHANGED <<media, jobs, tasks>>

-----------------------------------------------------------------------------
(* jobs.py, admin.py: the requests that create and cancel jobs *)

Active_AndCompleted == {"pending", "running", "completed"}

Active == {"pending", "running"}
Terminal == {"completed", "failed", "cancelled"}

NewJob(user_id, job_type) ==
    [user_id |-> user_id, job_type |-> job_type, status |-> "pending",
     total_items |-> 0, processed_items |-> 0, failed_items |-> 0,
     error_message |-> "", started_at |-> FALSE, completed_at |-> FALSE]

\* The arguments of task.delay(...) and the locals of the task once it runs.
NewTask(job, kind, user_id, process_type) ==
    [job |-> job, kind |-> kind, user_id |-> user_id, process_type |-> process_type,
     pc |-> "queued", users |-> <<>>, uidx |-> 0, items |-> <<>>, idx |-> 0,
     total |-> 0, processed |-> 0, failed |-> 0, staged |-> NoPath,
     hashed |-> {}, rescan |-> FALSE]

\* db.add(job); commit; <task>.delay(job.id, user_id[, process_type])
EnqueueRows(user_id, job_type, kind, process_type) ==
    /\ jobs' = jobs @@ (nextId.job :> NewJob(user_id, job_type))
    /\ tasks' = tasks @@ (nextId.task :> NewTask(nextId.job, kind, user_id, process_type))
    /\ nextId' = [nextId EXCEPT !.job = @ + 1, !.task = @ + 1]
    /\ ev' = [op |-> "trigger", subj |-> nextId.job, det |-> job_type]
    /\ UNCHANGED <<media, faces, persons, requests>>

\* A handler that creates the job in one step.
Enqueue(user_id, job_type, kind, process_type) ==
    /\ EnqueueRows(user_id, job_type, kind, process_type)
    /\ UNCHANGED calls

\* trigger_scan's query: a scan job of the user that is pending or running
ExistingScan(u) ==
    \E j \in DOMAIN jobs :
        jobs[j].user_id = u /\ jobs[j].job_type = "scan" /\ jobs[j].status \in Active

\* trigger_scan as one step
TriggerScan(u, maxJobs) ==
    /\ nextId.job <= maxJobs
    /\ ~ ExistingScan(u)
    /\ Enqueue(u, "scan", "scan", "-")

\* trigger_scan up to the result of its query for an active scan job
TriggerScanBegin(u) ==
    /\ requests < MaxRequests
    /\ requests' = requests + 1
    /\ calls' = calls (+) SetToBag({[handler |-> "trigger_scan", user_id |-> u,
                                     existing |-> ExistingScan(u)]})
    /\ ev' = [op |-> "trigger_scan_query", subj |-> NULL, det |-> u]
    /\ UNCHANGED <<media, faces, persons, jobs, tasks, nextId>>

\* trigger_scan from there: 400 when the query found a job, else db.add(job);
\* commit; scan_and_index_media.delay(...)
TriggerScanEnd(c) ==
    /\ BagIn(c, calls)
    /\ c.handler = "trigger_scan"
    /\ calls' = calls (-) SetToBag({c})
    /\ IF c.existing
       THEN /\ ev' = [op |-> "trigger_refused", subj |-> NULL, det |-> c.user_id]
            /\ UNCHANGED <<media, faces, persons, jobs, tasks, nextId, requests>>
       ELSE EnqueueRows(c.user_id, "scan", "scan", "-")

TriggerFaceProcessing(u, maxJobs) ==
    /\ nextId.job <= maxJobs
    /\ Enqueue(u, "face_recognition", "ai", "face")

TriggerClipProcessing(u, maxJobs) ==
    /\ nextId.job <= maxJobs
    /\ Enqueue(u, "clip_embedding", "ai", "clip")

TriggerYoloProcessing(u, maxJobs) ==
    /\ nextId.job <= maxJobs
    /\ Enqueue(u, "yolo_detection", "ai", "yolo")

\* admin.py: user_id is a user or None
TriggerReindex(user_id, maxJobs) ==
    /\ nextId.job <= maxJobs
    /\ Enqueue(user_id, "reindex", "scan", "-")

AIJobType(process_type) ==
    CASE process_type = "face" -> "ai_face"
      [] process_type = "clip" -> "ai_clip"
      [] process_type = "yolo" -> "ai_yolo"
      [] process_type = "all" -> "ai_all"

TriggerAIProcessing(user_id, process_type, maxJobs) ==
    /\ nextId.job <= maxJobs
    /\ Enqueue(user_id, AIJobType(process_type), "ai", process_type)

\* The body both cancel_job handlers share once the job is found: a job that
\* is neither pending nor running is refused with 400 and nothing is written;
\* otherwise job.status = "cancelled"; commit.
CancelFound(j) ==
    /\ IF jobs[j].status \in Active
       THEN jobs' = [jobs EXCEPT ![j].status = "cancelled"]
       ELSE UNCHANGED jobs
    /\ UNCHANGED calls
    /\ ev' = [op |-> "cancel_job", subj |-> j,
              det |-> [status |-> jobs[j].status,
                       response |-> IF jobs[j].status \in Active THEN 200 ELSE 400]]
    /\ UNCHANGED <<media, faces, persons, tasks, nextId, requests>>

\* jobs.py cancel_job: the job must belong to the caller
CancelJob(u, j) ==
    /\ j \in DOMAIN jobs
    /\ jobs[j].user_id = u
    /\ CancelFound(j)

\* admin.py cancel_job: any job
AdminCancelJob(j) ==
    /\ j \in DOMAIN jobs
    /\ CancelFound(j)

-----------------------------------------------------------------------------
(* tasks.py: process_ai_features *)

RECURSIVE ById(_)
ById(S) ==
    IF S = {} THEN <<>>
    ELSE LET m == CHOOSE x \in S : \A y \in S : x <= y IN <<m>> \o ById(S \ {m})

\* job.status = "running"; job.started_at = now; commit
AIStart(t) ==
    /\ t \in DOMAIN tasks
    /\ tasks[t].kind = "ai"
    /\ tasks[t].pc = "queued"
    /\ jobs' = [jobs EXCEPT ![tasks[t].job].status = "running", ![tasks[t].job].started_at = TRUE]
    /\ tasks' = [tasks EXCEPT ![t].pc = "started"]
    /\ UNCHANGED calls
    /\ ev' = [op |-> "task_start", subj |-> tasks[t].job, det |-> jobs[tasks[t].job].status]
    /\ UNCHANGED <<media, faces, persons, nextId, requests>>

Pending_Always(flag) == TRUE

\* A capability is still to run on a row when its flag is false:
\* Media.<x>_processed == False in the query, not media.<x>_processed in the loop.
Pending(flag) == ~ flag

\* The rows the query for unprocessed media returns.
Unprocessed(user_id, process_type) ==
    {m \in DOMAIN media :
        /\ ~ media[m].is_deleted
        /\ user_id # NoUser => media[m].owner_id = user_id
        /\ CASE process_type = "face" -> Pending(media[m].face_processed) /\ media[m].media_type = "photo"
             [] process_type = "clip" -> Pending(media[m].clip_processed)
             [] process_type = "yolo" -> Pending(media[m].yolo_processed) /\ media[m].media_type = "photo"
             [] OTHER -> \/ Pending(media[m].face_processed)
                         \/ Pending(media[m].clip_processed)
                         \/ Pending(media[m].yolo_processed)}

\* media_items = query.all(); job.total_items = len(media_items); commit
AISelect(t) ==
    /\ t \in DOMAIN tasks
    /\ tasks[t].kind = "ai"
    /\ tasks[t].pc = "started"
    /\ LET media_items == ById(Unprocessed(tasks[t].user_id, tasks[t].process_type))
       IN /\ tasks' = [tasks EXCEPT ![t].pc = "loop", ![t].items = media_items,
                                    ![t].total = Len(media_items)]
          /\ jobs' = [jobs EXCEPT ![tasks[t].job].total_items = Len(media_items)]
    /\ UNCHANGED calls
    /\ ev' = [op |-> "task_select", subj |-> tasks[t].job, det |-> NULL]
    /\ UNCHANGED <<media, faces, persons, nextId, requests>>

\* The loop over detected_faces: every face is matched against known_encodings,
\* a match increments that person's face_count, and a Face row is added.
RECURSIVE AddFaces(_, _, _, _, _, _, _)
AddFaces(detected, k, ps, fs, m, order, known) ==
    IF k > Len(detected) THEN [persons |-> ps, faces |-> fs]
    ELSE LET match == find_matching_person(detected[k], order, known)
             ps1 == IF match # NULL /\ match \in DOMAIN ps
                    THEN [ps EXCEPT ![match].face_count = @ + 1]
                    ELSE ps
             face == [media_id |-> m, person_id |-> match, encoding |-> detected[k]]
         IN AddFaces(detected, k + 1, ps1, fs @@ ((nextId.face + k - 1) :> face), m, order, known)

ClipUpdate_AllFlags(M, clip) ==
    [M EXCEPT !.clip_processed = TRUE, !.face_processed = TRUE, !.yolo_processed = TRUE,
              !.clip_embedding = IF clip = "ok" THEN TRUE ELSE @,
              !.tags = IF clip = "ok" THEN @ \cup {"clip"} ELSE @]

\* The CLIP block: the embedding and its tags when get_image_embedding returned
\* one, and media.clip_processed = True either way.
ClipUpdate(M, clip) ==
    [M EXCEPT !.clip_processed = TRUE,
              !.clip_embedding = IF clip = "ok" THEN TRUE ELSE @,
              !.tags = IF clip = "ok" THEN @ \cup {"clip"} ELSE @]

\* The face block on the Media row: media.face_processed = True
FaceUpdate(M) == [M EXCEPT !.face_processed = TRUE]

\* The YOLO block: the detections and their tags when detect_objects found
\* some, and media.yolo_processed = True either way.
YoloUpdate(M, yolo) ==
    [M EXCEPT !.yolo_processed = TRUE,
              !.yolo_detections = IF yolo = "ok" THEN TRUE ELSE @,
              !.tags = IF yolo = "ok" THEN @ \cup {"yolo"} ELSE @]

Outcomes == {"ok", "infer_fail", "raise"}

\* What the commit of an item leaves in its Media row: the session writes the
\* columns it changed on the row it loaded, and inserts the tag links it added.
StoredRow(loaded, value, stored) ==
    [c \in DOMAIN stored |->
        IF c = "tags" THEN stored.tags \cup (value.tags \ loaded.tags)
        ELSE Flushed(loaded[c], value[c], stored[c])]

\* One pass of the loop body over media m, M being the row as the session
\* loaded it.  exists is os.path.exists(file_path); clip, face and yolo say how
\* each capability that runs ends: "ok", "infer_fail" (the service catches the
\* model's error and returns None or []) or "raise" (an exception escapes, e.g.
\* a store error); "skip" stands for a capability that does not run.  order is
\* the order of the persons query.  late says what raises after the item has
\* been committed and counted, still inside the try: nothing ("no"), the commit
\* of job.processed_items ("commit") or self.update_state ("update_state"); the
\* handler then counts the item as failed as well.
AIItemBodyOn(t, M, exists, clip, face, yolo, order, late) ==
    LET T == tasks[t]
        j == T.job
        m == T.items[T.idx + 1]
        pt == T.process_type
        runClip == pt \in {"clip", "all"} /\ Pending(M.clip_processed)
        runFace == pt \in {"face", "all"} /\ Pending(M.face_processed) /\ M.media_type = "photo"
        runYolo == pt \in {"yolo", "all"} /\ Pending(M.yolo_processed) /\ M.media_type = "photo"
        raised == "raise" \in {clip, face, yolo}
        M1 == IF runClip THEN ClipUpdate(M, clip) ELSE M
        M2 == IF runFace THEN FaceUpdate(M1) ELSE M1
        M3 == IF runYolo THEN YoloUpdate(M2, yolo) ELSE M2
        detected == IF runFace /\ face = "ok" THEN FS[M.original_path].faces ELSE <<>>
        known == [p \in Range(order) |-> persons[p].face_embedding]
        added == AddFaces(detected, 1, persons, faces, m, order, known)
    IN /\ UNCHANGED requests
       /\ ev' = [op |-> "ai_item", subj |-> j,
                 det |-> [media |-> m, exists |-> exists, clip |-> clip, face |-> face,
                          yolo |-> yolo, job_status |-> jobs[j].status, late |-> late]]
       /\ IF ~ exists \/ raised
          THEN \* failed += 1 (and db.rollback() after an exception)
               /\ tasks' = [tasks EXCEPT ![t].idx = @ + 1, ![t].failed = @ + 1]
               /\ UNCHANGED <<media, faces, persons, jobs, nextId>>
          ELSE \* db.commit(); processed += 1; job.processed_items = processed; commit
               /\ media' = [media EXCEPT ![m] = StoredRow(M, M3, @)]
               /\ faces' = added.faces
               /\ persons' = added.persons
               /\ nextId' = [nextId EXCEPT !.face = @ + Len(detected)]
               /\ tasks' = [tasks EXCEPT ![t].idx = @ + 1, ![t].processed = @ + 1,
                                         ![t].failed = IF late = "no" THEN @ ELSE @ + 1]
               /\ jobs' = [jobs EXCEPT ![j].processed_items =
                                          IF late = "commit" THEN @ ELSE T.processed + 1]

\* The loop body on the row as it is in the store.
AIItemBody(t, exists, clip, face, yolo, order) ==
    /\ AIItemBodyOn(t, media[tasks[t].items[tasks[t].idx + 1]], exists, clip, face, yolo,
                    order, "no")
    /\ UNCHANGED calls

KnownPersons_OfAnyOwner(owner_id) == DOMAIN persons

\* db.query(Person).filter(Person.owner_id == media.owner_id,
\* Person.face_embedding.isnot(None)): every person of the model has an embedding.
KnownPersons(owner_id) == {p \in DOMAIN persons : persons[p].owner_id = owner_id}

\* The ways the loop body over the loaded row M can go.
AIItemOutcomes(t, M) ==
    LET pt == tasks[t].process_type
        runClip == pt \in {"clip", "all"} /\ Pending(M.clip_processed)
        runFace == pt \in {"face", "all"} /\ Pending(M.face_processed) /\ M.media_type = "photo"
        runYolo == pt \in {"yolo", "all"} /\ Pending(M.yolo_processed) /\ M.media_type = "photo"
        Ends(runs) == IF runs THEN Outcomes ELSE {"skip"}
    IN UNION {UNION {UNION {UNION {
          {[exists |-> exists, clip |-> clip, face |-> face, yolo |-> yolo, order |-> order] :
              order \in (IF face = "ok" THEN Orders(KnownPersons(M.owner_id)) ELSE {<<>>})} :
              yolo \in Ends(exists /\ runYolo /\ clip # "raise" /\ face # "raise")} :
              face \in Ends(exists /\ runFace /\ clip # "raise")} :
              clip \in Ends(exists /\ runClip)} :
              exists \in BOOLEAN}

AIItem(t) ==
    /\ t \in DOMAIN tasks
    /\ tasks[t].kind = "ai"
    /\ tasks[t].pc = "loop"
    /\ tasks[t].idx < Len(tasks[t].items)
    /\ tasks[t].items[tasks[t].idx + 1] \in DOMAIN media
    /\ \E o \in AIItemOutcomes(t, media[tasks[t].items[tasks[t].idx + 1]]) :
          AIItemBody(t, o.exists, o.clip, o.face, o.yolo, o.order)

\* The loop body up to its reads of the row: file_path = media.original_path
\* reloads the row, expired by the last commit, into the session of the task.
AIItemLoad(t) ==
    /\ t \in DOMAIN tasks
    /\ tasks[t].kind = "ai"
    /\ tasks[t].pc = "loop"
    /\ tasks[t].idx < Len(tasks[t].items)
    /\ tasks[t].items[tasks[t].idx + 1] \in DOMAIN media
    /\ ~ \E c \in BagToSet(calls) : c.handler = "ai_item" /\ c.task = t
    /\ calls' = calls (+) SetToBag({[handler |-> "ai_item", task |-> t,
                                     row |-> media[tasks[t].items[tasks[t].idx + 1]]]})
    /\ ev' = [op |-> "ai_item_load", subj |-> tasks[t].job,
              det |-> tasks[t].items[tasks[t].idx + 1]]
    /\ UNCHANGED <<media, faces, persons, jobs, tasks, nextId, requests>>

\* The loop body from there: the models run on the file and the item commits.
AIItemStore(c) ==
    /\ BagIn(c, calls)
    /\ c.handler = "ai_item"
    /\ tasks[c.task].items[tasks[c.task].idx + 1] \in DOMAIN media
    /\ calls' = calls (-) SetToBag({c})
    /\ \E o \in AIItemOutcomes(c.task, c.row) :
          AIItemBodyOn(c.task, c.row, o.exists, o.clip, o.face, o.yolo, o.order, "no")

LateFaults == {"commit", "update_state"}

\* The loop body over an item that is committed and counted as processed, and
\* then meets an exception before the end of the try.
AIItemLate(t) ==
    /\ t \in DOMAIN tasks
    /\ tasks[t].kind = "ai"
    /\ tasks[t].pc = "loop"
    /\ tasks[t].idx < Len(tasks[t].items)
    /\ tasks[t].items[tasks[t].idx + 1] \in DOMAIN media
    /\ UNCHANGED calls
    /\ \E late \in LateFaults :
       \E o \in AIItemOutcomes(t, media[tasks[t].items[tasks[t].idx + 1]]) :
          /\ o.exists
          /\ "raise" \notin {o.clip, o.face, o.yolo}
          /\ AIItemBodyOn(t, media[tasks[t].items[tasks[t].idx + 1]],
                          o.exists, o.clip, o.face, o.yolo, o.order, late)

\* The loop body over a media item whose row has been deleted since the query.
\* The objects of the session are expired by the commit before the loop, so
\* file_path = media.original_path reloads the row and raises inside the try;
\* the per-item handler formats media.id for its log line, which reloads the
\* row and raises again, now outside the try.  That exception ends the task
\* through the outer handler: job.status = "failed".
AIItemDeleted(t) ==
    /\ t \in DOMAIN tasks
    /\ tasks[t].kind = "ai"
    /\ tasks[t].pc = "loop"
    /\ tasks[t].idx < Len(tasks[t].items)
    /\ tasks[t].items[tasks[t].idx + 1] \notin DOMAIN media
    /\ jobs' = [jobs EXCEPT ![tasks[t].job].status = "failed",
                            ![tasks[t].job].error_message = "error",
                            ![tasks[t].job].completed_at = TRUE]
    /\ tasks' = [tasks EXCEPT ![t].pc = "done"]
    /\ UNCHANGED calls
    /\ ev' = [op |-> "ai_item_deleted", subj |-> tasks[t].job,
              det |-> tasks[t].items[tasks[t].idx + 1]]
    /\ UNCHANGED <<media, faces, persons, nextId, requests>>

\* job.status = "completed"; processed_items, failed_items, completed_at; commit
AIComplete(t) ==
    /\ t \in DOMAIN tasks
    /\ tasks[t].kind = "ai"
    /\ tasks[t].pc = "loop"
    /\ tasks[t].idx = Len(tasks[t].items)
    /\ jobs' = [jobs EXCEPT ![tasks[t].job].status = "completed",
                            ![tasks[t].job].processed_items = tasks[t].processed,
                            ![tasks[t].job].failed_items = tasks[t].failed,
                            ![tasks[t].job].completed_at = TRUE]
    /\ tasks' = [tasks EXCEPT ![t].pc = "done"]
    /\ UNCHANGED calls
    /\ ev' = [op |-> "task_complete", subj |-> tasks[t].job, det |-> jobs[tasks[t].job].status]
    /\ UNCHANGED <<media, faces, persons, nextId, requests>>

\* except Exception: an exception outside the per-item handler (a failing
\* query or commit) ends the task through the outer handler.
AIFault(t) ==
    /\ t \in DOMAIN tasks
    /\ tasks[t].kind = "ai"
    /\ tasks[t].pc \in {"started", "loop"}
    /\ jobs' = [jobs EXCEPT ![tasks[t].job].status = "failed",
                            ![tasks[t].job].error_message = "error",
                            ![tasks[t].job].completed_at = TRUE]
    /\ tasks' = [tasks EXCEPT ![t].pc = "done"]
    /\ UNCHANGED calls
    /\ ev' = [op |-> "task_fault", subj |-> tasks[t].job, det |-> jobs[tasks[t].job].status]
    /\ UNCHANGED <<media, faces, persons, nextId, requests>>

\* The query for the job row raises (the store cannot be reached).  The outer
\* handler tests "if job:" with job never assigned, which raises in the
\* handler; finally closes the session and the exception ends the task.  The
\* task has ended, so the message is acknowledged; the job row is as it was.
AIStartFault(t) ==
    /\ t \in DOMAIN tasks
    /\ tasks[t].kind = "ai"
    /\ tasks[t].pc = "queued"
    /\ tasks' = [tasks EXCEPT ![t].pc = "done"]
    /\ UNCHANGED calls
    /\ ev' = [op |-> "task_fault_unloaded", subj |-> tasks[t].job,
              det |-> jobs[tasks[t].job].status]
    /\ UNCHANGED <<media, faces, persons, jobs, nextId, requests>>

\* except Exception, when the exception is a store error of a query or commit
\* outside the per-item handler: the outer handler sets the fields on the job
\* and calls db.commit() on the session whose transaction that error has
\* invalidated, with no rollback before it, so this commit raises as well and
\* the handler's writes are lost.  The job row is as it was.
AIHandlerFault(t) ==
    /\ t \in DOMAIN tasks
    /\ tasks[t].kind = "ai"
    /\ tasks[t].pc \in {"started", "loop"}
    /\ tasks' = [tasks EXCEPT ![t].pc = "done"]
    /\ UNCHANGED calls
    /\ ev' = [op |-> "task_fault_lost", subj |-> tasks[t].job,
              det |-> jobs[tasks[t].job].status]
    /\ UNCHANGED <<media, faces, persons, jobs, nextId, requests>>

\* A Media row of the file at path p with its three completion flags.
MediaRow(p, cp, fp, yp) ==
    [owner_id |-> FS[p].owner, original_path |-> p, file_hash |-> FS[p].file_hash,
     media_type |-> FS[p].media_type, clip_processed |-> cp, face_processed |-> fp,
     yolo_processed |-> yp, clip_embedding |-> cp, yolo_detections |-> yp,
     tags |-> {}, is_deleted |-> FALSE]

-----------------------------------------------------------------------------
(* tasks.py: scan_and_index_media *)

\* scan_directory(user_path): the media files of the user's folder
scan_directory(u) == SelectSeq(<<"a", "b", "c", "x">>, LAMBDA p : FS[p].owner = u)

\* Whether a scan that covers this task's scope has completed without a failed
\* file before (history, read by no handler).
ScannedBefore(t) ==
    \E j \in DOMAIN jobs \ {tasks[t].job} :
        /\ jobs[j].job_type \in {"scan", "reindex"}
        /\ jobs[j].status = "completed"
        /\ jobs[j].failed_items = 0
        /\ jobs[j].user_id \in {tasks[t].user_id, NoUser}

\* job.status = "running"; job.started_at = now; commit
ScanStart(t) ==
    /\ t \in DOMAIN tasks
    /\ tasks[t].kind = "scan"
    /\ tasks[t].pc = "queued"
    /\ jobs' = [jobs EXCEPT ![tasks[t].job].status = "running", ![tasks[t].job].started_at = TRUE]
    /\ tasks' = [tasks EXCEPT ![t].pc = "started", ![t].rescan = ScannedBefore(t)]
    /\ UNCHANGED calls
    /\ ev' = [op |-> "task_start", subj |-> tasks[t].job, det |-> jobs[tasks[t].job].status]
    /\ UNCHANGED <<media, faces, persons, nextId, requests>>

\* is_nas_accessible(), then the users to process: the one of user_id, or every
\* active user with a nas_path in the order the query returns them.
ScanPrepare(t, nas_ok, users) ==
    /\ t \in DOMAIN tasks
    /\ tasks[t].kind = "scan"
    /\ tasks[t].pc = "started"
    /\ IF ~ nas_ok
       THEN /\ jobs' = [jobs EXCEPT ![tasks[t].job].status = "failed",
                                    ![tasks[t].job].error_message = "NAS is not accessible",
                                    ![tasks[t].job].completed_at = TRUE]
            /\ tasks' = [tasks EXCEPT ![t].pc = "done"]
       ELSE /\ tasks' = [tasks EXCEPT ![t].pc = "loop", ![t].users = users]
            /\ UNCHANGED jobs
    /\ UNCHANGED calls
    /\ ev' = [op |-> "scan_prepare", subj |-> tasks[t].job, det |-> nas_ok]
    /\ UNCHANGED <<media, faces, persons, nextId, requests>>

\* for user in users: media_files = scan_directory(user_path);
\* total_files += len(media_files); job.total_items = total_files; commit
ScanNextUser(t) ==
    /\ t \in DOMAIN tasks
    /\ tasks[t].kind = "scan"
    /\ tasks[t].pc = "loop"
    /\ tasks[t].staged = NoPath
    /\ tasks[t].idx = Len(tasks[t].items)
    /\ tasks[t].uidx < Len(tasks[t].users)
    /\ LET media_files == scan_directory(tasks[t].users[tasks[t].uidx + 1])
           total_files == tasks[t].total + Len(media_files)
       IN /\ tasks' = [tasks EXCEPT ![t].uidx = @ + 1, ![t].items = media_files,
                                    ![t].idx = 0, ![t].total = total_files]
          /\ jobs' = [jobs EXCEPT ![tasks[t].job].total_items = total_files]
    /\ UNCHANGED calls
    /\ ev' = [op |-> "scan_user", subj |-> tasks[t].job, det |-> NULL]
    /\ UNCHANGED <<media, faces, persons, nextId, requests>>

\* The first half of the loop body over file_path: the query for a row at this
\* path, process_media_file (which hashes the file), the query for a row with
\* this hash, and db.add(media); db.flush().  Both queries see committed rows
\* only.  raises says that process_media_file throws.
ScanFileBegin(t, raises) ==
    /\ t \in DOMAIN tasks
    /\ tasks[t].kind = "scan"
    /\ tasks[t].pc = "loop"
    /\ tasks[t].staged = NoPath
    /\ tasks[t].idx < Len(tasks[t].items)
    /\ LET user == tasks[t].users[tasks[t].uidx]
           file_path == tasks[t].items[tasks[t].idx + 1]
           existing == \E m \in DOMAIN media :
                          media[m].owner_id = user /\ media[m].original_path = file_path
           duplicate == \E m \in DOMAIN media :
                          media[m].owner_id = user /\ media[m].file_hash = FS[file_path].file_hash
       IN /\ existing => ~ raises
          /\ tasks' = [tasks EXCEPT ![t] =
                IF existing
                THEN [@ EXCEPT !.idx = @ + 1, !.processed = @ + 1]
                ELSE IF raises
                THEN [@ EXCEPT !.idx = @ + 1, !.failed = @ + 1]
                ELSE IF duplicate
                THEN [@ EXCEPT !.idx = @ + 1, !.processed = @ + 1,
                               !.hashed = @ \cup {file_path}]
                ELSE [@ EXCEPT !.staged = file_path, !.hashed = @ \cup {file_path}]]
          /\ UNCHANGED calls
          /\ ev' = [op |-> "scan_file", subj |-> tasks[t].job, det |-> file_path]
    /\ UNCHANGED <<media, faces, persons, jobs, nextId, requests>>

\* The second half: generate_all_thumbnails, db.commit(), processed_files += 1,
\* job.processed_items = processed_files, commit.  The INSERT fails on
\* uq_media_owner_path when a row of this owner at this path has been
\* committed meanwhile; the handler then counts a failure and rolls back.
\* late says what raises after the file has been committed and counted:
\* nothing ("no"), the commit of job.processed_items ("commit") or
\* self.update_state ("update_state"); the handler then counts a failure too.
ScanFileCommitOn(t, late) ==
    /\ t \in DOMAIN tasks
    /\ tasks[t].kind = "scan"
    /\ tasks[t].pc = "loop"
    /\ tasks[t].staged # NoPath
    /\ LET user == tasks[t].users[tasks[t].uidx]
           file_path == tasks[t].staged
           taken == \E m \in DOMAIN media :
                       media[m].owner_id = user /\ media[m].original_path = file_path
       IN IF taken
          THEN /\ tasks' = [tasks EXCEPT ![t].idx = @ + 1, ![t].failed = @ + 1,
                                         ![t].staged = NoPath]
               /\ UNCHANGED <<media, jobs, nextId>>
          ELSE /\ media' = media @@ (nextId.media :> MediaRow(file_path, FALSE, FALSE, FALSE))
               /\ nextId' = [nextId EXCEPT !.media = @ + 1]
               /\ tasks' = [tasks EXCEPT ![t].idx = @ + 1, ![t].processed = @ + 1,
                                         ![t].failed = IF late = "no" THEN @ ELSE @ + 1,
                                         ![t].staged = NoPath]
               /\ jobs' = [jobs EXCEPT ![tasks[t].job].processed_items =
                                          IF late = "commit" THEN @ ELSE tasks[t].processed + 1]
    /\ UNCHANGED calls
    /\ ev' = [op |-> "scan_commit", subj |-> tasks[t].job, det |-> tasks[t].staged]
    /\ UNCHANGED <<faces, persons, requests>>

ScanFileCommit(t) == ScanFileCommitOn(t, "no")

\* The second half over a file that is committed and counted as processed, and
\* then meets an exception before the end of the try.
ScanFileLate(t) ==
    /\ t \in DOMAIN tasks
    /\ tasks[t].staged # NoPath
    /\ ~ \E m \in DOMAIN media :
            /\ media[m].owner_id = tasks[t].users[tasks[t].uidx]
            /\ media[m].original_path = tasks[t].staged
    /\ \E late \in LateFaults : ScanFileCommitOn(t, late)

\* job.status = "completed"; processed_items, failed_items, completed_at; commit
ScanComplete(t) ==
    /\ t \in DOMAIN tasks
    /\ tasks[t].kind = "scan"
    /\ tasks[t].pc = "loop"
    /\ tasks[t].staged = NoPath
    /\ tasks[t].idx = Len(tasks[t].items)
    /\ tasks[t].uidx = Len(tasks[t].users)
    /\ jobs' = [jobs EXCEPT ![tasks[t].job].status = "completed",
                            ![tasks[t].job].processed_items = tasks[t].processed,
                            ![tasks[t].job].failed_items = tasks[t].failed,
                            ![tasks[t].job].completed_at = TRUE]
    /\ tasks' = [tasks EXCEPT ![t].pc = "done"]
    /\ UNCHANGED calls
    /\ ev' = [op |-> "task_complete", subj |-> tasks[t].job, det |-> jobs[tasks[t].job].status]
    /\ UNCHANGED <<media, faces, persons, nextId, requests>>

\* except Exception: an exception outside the per-file handler ends the task
\* through the outer handler; the pending INSERT is lost with the session.
ScanFault(t) ==
    /\ t \in DOMAIN tasks
    /\ tasks[t].kind = "scan"
    /\ tasks[t].pc \in {"started", "loop"}
    /\ jobs' = [jobs EXCEPT ![tasks[t].job].status = "failed",
                            ![tasks[t].job].error_message = "error",
                            ![tasks[t].job].completed_at = TRUE]
    /\ tasks' = [tasks EXCEPT ![t].pc = "done", ![t].staged = NoPath]
    /\ UNCHANGED calls
    /\ ev' = [op |-> "task_fault", subj |-> tasks[t].job, det |-> jobs[tasks[t].job].status]
    /\ UNCHANGED <<media, faces, persons, nextId, requests>>

\* The query for the job row raises: as in process_ai_features, "if job:" in
\* the outer handler raises and the job row is as it was.
ScanStartFault(t) ==
    /\ t \in DOMAIN tasks
    /\ tasks[t].kind = "scan"
    /\ tasks[t].pc = "queued"
    /\ tasks' = [tasks EXCEPT ![t].pc = "done"]
    /\ UNCHANGED calls
    /\ ev' = [op |-> "task_fault_unloaded", subj |-> tasks[t].job,
              det |-> jobs[tasks[t].job].status]
    /\ UNCHANGED <<media, faces, persons, jobs, nextId, requests>>

\* except Exception after a store error outside the per-file handler: the
\* handler's db.commit() raises as well; the pending INSERT is lost with the
\* session and the job row is as it was.
ScanHandlerFault(t) ==
    /\ t \in DOMAIN tasks
    /\ tasks[t].kind = "scan"
    /\ tasks[t].pc \in {"started", "loop"}
    /\ tasks' = [tasks EXCEPT ![t].pc = "done", ![t].staged = NoPath]
    /\ UNCHANGED calls
    /\ ev' = [op |-> "task_fault_lost", subj |-> tasks[t].job,
              det |-> jobs[tasks[t].job].status]
    /\ UNCHANGED <<media, faces, persons, jobs, nextId, requests>>

-----------------------------------------------------------------------------
(* media.py, tasks.py: the handlers that delete Media rows *)

\* db.delete(media) for every row of S: the rows go, and their Face rows with
\* them (Media.faces cascade="all, delete-orphan", Face.media_id ON DELETE CASCADE).
\* A Person whose cover face goes keeps its face_count and loses the cover
\* (Person.cover_face_id ON DELETE SET NULL).
DeleteRows(S) ==
    /\ media' = [m \in DOMAIN media \ S |-> media[m]]
    /\ faces' = [f \in {g \in DOMAIN faces : faces[g].media_id \notin S} |-> faces[f]]
    /\ persons' = [p \in DOMAIN persons |->
                      IF /\ persons[p].cover_face_id \in DOMAIN faces
                         /\ faces[persons[p].cover_face_id].media_id \in S
                      THEN [persons[p] EXCEPT !.cover_face_id = NULL]
                      ELSE persons[p]]

\* delete_media(media_id, permanent)
DeleteMedia(u, m, permanent) ==
    /\ m \in DOMAIN media
    /\ media[m].owner_id = u
    /\ IF permanent
       THEN DeleteRows({m})
       ELSE /\ media' = [media EXCEPT ![m].is_deleted = TRUE]
            /\ UNCHANGED <<faces, persons>>
    /\ UNCHANGED calls
    /\ ev' = [op |-> "delete_media", subj |-> m, det |-> permanent]
    /\ UNCHANGED <<jobs, tasks, nextId, requests>>

\* empty_trash: every row of the user with is_deleted
EmptyTrash(u) ==
    /\ DeleteRows({m \in DOMAIN media : media[m].owner_id = u /\ media[m].is_deleted})
    /\ UNCHANGED calls
    /\ ev' = [op |-> "empty_trash", subj |-> NULL, det |-> NULL]
    /\ UNCHANGED <<jobs, tasks, nextId, requests>>

\* cleanup_deleted_media: every row with is_deleted whose deleted_at is more
\* than 30 days old; old is the set of those rows (time is not modelled).
CleanupDeletedMedia(old) ==
    /\ old \subseteq {m \in DOMAIN media : media[m].is_deleted}
    /\ DeleteRows(old)
    /\ UNCHANGED calls
    /\ ev' = [op |-> "cleanup_deleted_media", subj |-> NULL, det |-> NULL]
    /\ UNCHANGED <<jobs, tasks, nextId, requests>>

-----------------------------------------------------------------------------
(* celery_app.conf: task_acks_late *)

\* The worker that executes t is lost before the task returns.  The message
\* has not been acknowledged (task_acks_late), so the broker delivers it again:
\* a new execution with the same arguments.  What the lost execution had not
\* committed is gone.
Redeliver(t) ==
    /\ t \in DOMAIN tasks
    /\ tasks[t].pc \in {"started", "loop"}
    /\ nextId.task <= MaxDeliveries
    /\ tasks' = [tasks EXCEPT ![t].pc = "lost", ![t].staged = NoPath] @@
                (nextId.task :> NewTask(tasks[t].job, tasks[t].kind, tasks[t].user_id,
                                        tasks[t].process_type))
    /\ nextId' = [nextId EXCEPT !.task = @ + 1]
    /\ UNCHANGED calls
    /\ ev' = [op |-> "redeliver", subj |-> tasks[t].job, det |-> NULL]
    /\ UNCHANGED <<media, faces, persons, jobs, requests>>

-----------------------------------------------------------------------------
(* Specification of the people handlers *)

\* The store after a scan has indexed "a", "c" and "x", a face job has run
\* over "a" with nobody known yet, and user u1 has queued another face job
\* (trigger_face_processing).
InitPeople ==
    /\ media = (1 :> MediaRow("a", FALSE, TRUE, FALSE)) @@
               (2 :> MediaRow("x", FALSE, FALSE, FALSE)) @@
               (3 :> MediaRow("c", FALSE, FALSE, FALSE))
    /\ faces = (1 :> [media_id |-> 1, person_id |-> NULL, encoding |-> 0]) @@
               (2 :> [media_id |-> 1, person_id |-> NULL, encoding |-> 60])
    /\ persons = <<>>
    /\ jobs = (1 :> NewJob("u1", "face_recognition"))
    /\ tasks = (1 :> NewTask(1, "ai", "u1", "face"))
    /\ nextId = [media |-> 4, face |-> 3, person |-> 1, job |-> 2, task |-> 2]
    /\ requests = 0
    /\ calls = EmptyBag
    /\ ev = NoEvent

NextPeople ==
    \/ \E u \in Users, f \in 1..(nextId.face - 1), p \in 1..(nextId.person - 1) : AssignFace(u, f, p)
    \/ \E u \in Users, f \in 1..(nextId.face - 1) : UnassignFace(u, f)
    \/ \E u \in Users, f \in 1..(nextId.face - 1) : CreatePersonFromFace(u, f)
    \/ \E u \in Users, t \in 1..(nextId.person - 1), S \in SUBSET (1..(nextId.person - 1)) :
          MergePeople(u, t, S)
    \/ \E u \in Users, p \in 1..(nextId.person - 1) : DeletePerson(u, p)
    \/ \E u \in Users : ClusterFacesTask(u)
    \/ \E t \in 1..(nextId.task - 1) : AIStart(t)
    \/ \E t \in 1..(nextId.task - 1) : AISelect(t)
    \/ \E t \in 1..(nextId.task - 1) : AIItem(t)
    \/ \E t \in 1..(nextId.task - 1) : AIComplete(t)

SpecPeople == InitPeople /\ [][NextPeople]_vars

-----------------------------------------------------------------------------
(* Specification of the people handlers and the worker with faces of two owners *)

\* The store after a scan has indexed "a" and "x", a face job has run over "a"
\* of u1 with nobody known yet, and an admin has queued a face job for all
\* users; the face in "x" of u2 has the encoding of the first face of "a".
InitOwners ==
    /\ media = (1 :> MediaRow("a", FALSE, TRUE, FALSE)) @@
               (2 :> MediaRow("x", FALSE, FALSE, FALSE))
    /\ faces = (1 :> [media_id |-> 1, person_id |-> NULL, encoding |-> 0]) @@
               (2 :> [media_id |-> 1, person_id |-> NULL, encoding |-> 60])
    /\ persons = <<>>
    /\ jobs = (1 :> NewJob(NoUser, "ai_face"))
    /\ tasks = (1 :> NewTask(1, "ai", NoUser, "face"))
    /\ nextId = [media |-> 3, face |-> 3, person |-> 1, job |-> 2, task |-> 2]
    /\ requests = 0
    /\ calls = EmptyBag
    /\ ev = NoEvent

SpecOwners == InitOwners /\ [][NextPeople]_vars

-----------------------------------------------------------------------------
(* Specification of the AI pipeline *)

\* The store after a scan has indexed "c" and "x"; nothing is processed.
InitAI ==
    /\ media = (1 :> MediaRow("c", FALSE, FALSE, FALSE)) @@
               (2 :> MediaRow("x", FALSE, FALSE, FALSE))
    /\ faces = <<>>
    /\ persons = <<>>
    /\ jobs = <<>>
    /\ tasks = <<>>
    /\ nextId = [media |-> 3, face |-> 1, person |-> 1, job |-> 1, task |-> 1]
    /\ requests = 0
    /\ calls = EmptyBag
    /\ ev = NoEvent

NextAI ==
    \/ \E u \in Users : TriggerFaceProcessing(u, MaxAIJobs)
    \/ \E u \in Users : TriggerClipProcessing(u, MaxAIJobs)
    \/ \E u \in Users : TriggerYoloProcessing(u, MaxAIJobs)
    \/ \E process_type \in {"face", "clip", "yolo", "all"} :
          TriggerAIProcessing(NoUser, process_type, MaxAIJobs)
    \/ \E u \in Users, j \in 1..(nextId.job - 1) : CancelJob(u, j)
    \/ \E j \in 1..(nextId.job - 1) : AdminCancelJob(j)
    \/ \E t \in 1..(nextId.task - 1) : AIStart(t)
    \/ \E t \in 1..(nextId.task - 1) : AISelect(t)
    \/ \E t \in 1..(nextId.task - 1) : AIItem(t)
    \/ \E t \in 1..(nextId.task - 1) : AIComplete(t)
    \/ \E t \in 1..(nextId.task - 1) : AIFault(t)

SpecAI == InitAI /\ [][NextAI]_vars

-----------------------------------------------------------------------------
(* Specification of a clip job and a face job over the same rows *)

\* The store after a scan has indexed "c" and "x", with an admin clip job and
\* an admin face job queued for all users.
InitCapabilities ==
    /\ media = (1 :> MediaRow("c", FALSE, FALSE, FALSE)) @@
               (2 :> MediaRow("x", FALSE, FALSE, FALSE))
    /\ faces = <<>>
    /\ persons = <<>>
    /\ jobs = (1 :> NewJob(NoUser, "ai_clip")) @@ (2 :> NewJob(NoUser, "ai_face"))
    /\ tasks = (1 :> NewTask(1, "ai", NoUser, "clip")) @@ (2 :> NewTask(2, "ai", NoUser, "face"))
    /\ nextId = [media |-> 3, face |-> 1, person |-> 1, job |-> 3, task |-> 3]
    /\ requests = 0
    /\ calls = EmptyBag
    /\ ev = NoEvent

NextCapabilities ==
    \/ \E t \in 1..(nextId.task - 1) : AIStart(t)
    \/ \E t \in 1..(nextId.task - 1) : AISelect(t)
    \/ \E t \in 1..(nextId.task - 1) : AIItem(t)
    \/ \E t \in 1..(nextId.task - 1) : AIComplete(t)
    \/ \E t \in 1..(nextId.task - 1) : AIFault(t)

SpecCapabilities == InitCapabilities /\ [][NextCapabilities]_vars

-----------------------------------------------------------------------------
(* Specification of two AI jobs with the face capability that run at the same
   time, each item being a load of the row and, later, its commit *)

\* The store after a scan has indexed "c" and "x", with a face job of u1 and an
\* admin job for every capability queued.
InitFaceRace ==
    /\ media = (1 :> MediaRow("c", FALSE, FALSE, FALSE)) @@
               (2 :> MediaRow("x", FALSE, FALSE, FALSE))
    /\ faces = <<>>
    /\ persons = <<>>
    /\ jobs = (1 :> NewJob("u1", "face_recognition")) @@ (2 :> NewJob(NoUser, "ai_all"))
    /\ tasks = (1 :> NewTask(1, "ai", "u1", "face")) @@ (2 :> NewTask(2, "ai", NoUser, "all"))
    /\ nextId = [media |-> 3, face |-> 1, person |-> 1, job |-> 3, task |-> 3]
    /\ requests = 0
    /\ calls = EmptyBag
    /\ ev = NoEvent

NextFaceRace ==
    \/ \E t \in 1..(nextId.task - 1) : AIStart(t)
    \/ \E t \in 1..(nextId.task - 1) : AISelect(t)
    \/ \E t \in 1..(nextId.task - 1) : AIItemLoad(t)
    \/ \E c \in BagToSet(calls) : AIItemStore(c)
    \/ \E t \in 1..(nextId.task - 1) : AIComplete(t)
    \/ \E u \in Users, f \in 1..(nextId.face - 1) : CreatePersonFromFace(u, f)

SpecFaceRace == InitFaceRace /\ [][NextFaceRace]_vars

-----------------------------------------------------------------------------
(* Specification of a job that runs over media some capability has already
   finished, and is delivered again after its worker is lost *)

\* The store after a scan has indexed "c" and "x" and a clip job of u1 has
\* completed over "c", with an admin job for every capability queued.
InitRerun ==
    /\ media = (1 :> ClipUpdate(MediaRow("c", FALSE, FALSE, FALSE), "ok")) @@
               (2 :> MediaRow("x", FALSE, FALSE, FALSE))
    /\ faces = <<>>
    /\ persons = <<>>
    /\ jobs = (1 :> [NewJob("u1", "clip_embedding") EXCEPT
                        !.status = "completed", !.total_items = 1, !.processed_items = 1,
                        !.started_at = TRUE, !.completed_at = TRUE]) @@
              (2 :> NewJob(NoUser, "ai_all"))
    /\ tasks = (1 :> NewTask(2, "ai", NoUser, "all"))
    /\ nextId = [media |-> 3, face |-> 1, person |-> 1, job |-> 3, task |-> 2]
    /\ requests = 0
    /\ calls = EmptyBag
    /\ ev = NoEvent

NextRerun ==
    \/ \E t \in 1..(nextId.task - 1) : AIStart(t)
    \/ \E t \in 1..(nextId.task - 1) : AISelect(t)
    \/ \E t \in 1..(nextId.task - 1) : AIItem(t)
    \/ \E t \in 1..(nextId.task - 1) : AIComplete(t)
    \/ \E t \in 1..(nextId.task - 1) : AIFault(t)
    \/ \E t \in 1..(nextId.task - 1) : Redeliver(t)

SpecRerun == InitRerun /\ [][NextRerun]_vars

-----------------------------------------------------------------------------
(* Specification of the scanner *)

\* An empty store in front of the NAS tree.
InitScan ==
    /\ media = <<>>
    /\ faces = <<>>
    /\ persons = <<>>
    /\ jobs = <<>>
    /\ tasks = <<>>
    /\ nextId = [media |-> 1, face |-> 1, person |-> 1, job |-> 1, task |-> 1]
    /\ requests = 0
    /\ calls = EmptyBag
    /\ ev = NoEvent

NextScan ==
    \/ \E u \in Users : TriggerScan(u, MaxScanJobs)
    \/ \E user_id \in Users \cup {NoUser} : TriggerReindex(user_id, MaxScanJobs)
    \/ \E t \in 1..(nextId.task - 1) : ScanStart(t)
    \/ \E t \in 1..(nextId.task - 1), nas_ok \in BOOLEAN :
          \E users \in (IF tasks[t].user_id # NoUser
                        THEN {<<tasks[t].user_id>>}
                        ELSE Orders(Users)) : ScanPrepare(t, nas_ok, users)
    \/ \E t \in 1..(nextId.task - 1) : ScanNextUser(t)
    \/ \E t \in 1..(nextId.task - 1), raises \in BOOLEAN : ScanFileBegin(t, raises)
    \/ \E t \in 1..(nextId.task - 1) : ScanFileCommit(t)
    \/ \E t \in 1..(nextId.task - 1) : ScanComplete(t)
    \/ \E t \in 1..(nextId.task - 1) : ScanFault(t)

SpecScan == InitScan /\ [][NextScan]_vars

-----------------------------------------------------------------------------
(* Specification of the face_service functions, called on their own *)

\* The encodings a call may be given.
EncValues == {0, 30, 60, 120}
EncLists == UNION {[1..n -> EncValues] : n \in 0..MaxFaces}

InitFaceService ==
    /\ media = <<>>
    /\ faces = <<>>
    /\ persons = <<>>
    /\ jobs = <<>>
    /\ tasks = <<>>
    /\ nextId = [media |-> 1, face |-> 1, person |-> 1, job |-> 1, task |-> 1]
    /\ requests = 0
    /\ calls = EmptyBag
    /\ ev = NoEvent

\* clusters = cluster_faces(face_encodings)
CallClusterFaces(face_encodings) ==
    /\ UNCHANGED calls
    /\ ev' = [op |-> "cluster_faces()", subj |-> face_encodings,
              det |-> cluster_faces(face_encodings)]
    /\ UNCHANGED <<media, faces, persons, jobs, tasks, nextId, requests>>

\* match = find_matching_person(detected_face.encoding, known_encodings), as
\* process_ai_features calls it: the persons 1..n were created in that order,
\* enc holds their face_embedding, and order is the order in which the query
\* for them (no ORDER BY) returned the rows the dict is built from.
CallFindMatchingPerson(face_encoding, order, enc) ==
    /\ UNCHANGED calls
    /\ ev' = [op |-> "find_matching_person()",
              subj |-> [face_encoding |-> face_encoding, order |-> order, enc |-> enc],
              det |-> find_matching_person(face_encoding, order, enc)]
    /\ UNCHANGED <<media, faces, persons, jobs, tasks, nextId, requests>>

NextFaceService ==
    \/ \E face_encodings \in EncLists : CallClusterFaces(face_encodings)
    \/ \E face_encoding \in EncValues, n \in 0..MaxKnown :
          \E enc \in [1..n -> EncValues], order \in Orders(1..n) :
             CallFindMatchingPerson(face_encoding, order, enc)

SpecFaceService == InitFaceService /\ [][NextFaceService]_vars

-----------------------------------------------------------------------------
(* incremental_scanner.py: IncrementalScanner.detect_changes, called on its own *)

\* The paths a tree or a signature store may hold, and the (mtime, size)
\* signatures a file may have.
TreePaths == Range(SubSeq(<<"a", "b", "c", "x">>, 1, MaxTree))
Signatures == {"s1", "s2"}
Partial(S, T) == UNION {[D -> T] : D \in SUBSET S}

\* self.get_indexed_files(): the signature store, path -> signature
get_indexed_files(store) == store

\* self.scan_filesystem(): the set of the paths of the current tree
scan_filesystem(tree) == DOMAIN tree

\* detect_changes over the signature store and the tree; unreadable holds the
\* paths on which get_file_signature (os.stat) raises.  The result is the
\* collection of FileChange records, old and new being the signatures.
detect_changes(store, tree, unreadable) ==
    LET indexed_files == get_indexed_files(store)
        indexed_paths == DOMAIN indexed_files
        current_files == scan_filesystem(tree)
    IN {[path |-> path, change_type |-> "new", old |-> "-", new |-> tree[path]] :
            path \in (current_files \ indexed_paths) \ unreadable}
       \cup
       {[path |-> path, change_type |-> "deleted", old |-> indexed_files[path], new |-> "-"] :
            path \in indexed_paths \ current_files}

\* changes = self.detect_changes()
CallDetectChanges(store, tree, unreadable) ==
    /\ UNCHANGED calls
    /\ ev' = [op |-> "detect_changes()",
              subj |-> [store |-> store, tree |-> tree, unreadable |-> unreadable],
              det |-> detect_changes(store, tree, unreadable)]
    /\ UNCHANGED <<media, faces, persons, jobs, tasks, nextId, requests>>

NextIncremental ==
    \/ \E store \in Partial(TreePaths, Signatures), tree \in Partial(TreePaths, Signatures) :
          \E unreadable \in SUBSET (DOMAIN tree) : CallDetectChanges(store, tree, unreadable)

SpecIncremental == InitFaceService /\ [][NextIncremental]_vars

-----------------------------------------------------------------------------
(* Specification of one job whose task may be delivered again *)

\* The requests that may have queued the job: (user_id, job_type, kind, process_type).
QueuedJobs ==
    {<<"u1", "scan", "scan", "-">>,
     <<NoUser, "reindex", "scan", "-">>,
     <<"u1", "face_recognition", "ai", "face">>,
     <<NoUser, "ai_clip", "ai", "clip">>,
     <<NoUser, "ai_all", "ai", "all">>}

\* The store after a scan has indexed "c" and "x", with one job queued.
InitRedelivery ==
    /\ media = (1 :> MediaRow("c", FALSE, FALSE, FALSE)) @@
               (2 :> MediaRow("x", FALSE, FALSE, FALSE))
    /\ faces = <<>>
    /\ persons = <<>>
    /\ \E q \in QueuedJobs :
          /\ jobs = (1 :> NewJob(q[1], q[2]))
          /\ tasks = (1 :> NewTask(1, q[3], q[1], q[4]))
    /\ nextId = [media |-> 3, face |-> 1, person |-> 1, job |-> 2, task |-> 2]
    /\ requests = 0
    /\ calls = EmptyBag
    /\ ev = NoEvent

NextRedelivery ==
    \/ \E u \in Users, j \in 1..(nextId.job - 1) : CancelJob(u, j)
    \/ \E j \in 1..(nextId.job - 1) : AdminCancelJob(j)
    \/ \E t \in 1..(nextId.task - 1) : AIStart(t)
    \/ \E t \in 1..(nextId.task - 1) : AISelect(t)
    \/ \E t \in 1..(nextId.task - 1) : AIItem(t)
    \/ \E t \in 1..(nextId.task - 1) : AIComplete(t)
    \/ \E t \in 1..(nextId.task - 1) : AIFault(t)
    \/ \E t \in 1..(nextId.task - 1) : ScanStart(t)
    \/ \E t \in 1..(nextId.task - 1), nas_ok \in BOOLEAN :
          \E users \in (IF tasks[t].user_id # NoUser
                        THEN {<<tasks[t].user_id>>}
                        ELSE Orders(Users)) : ScanPrepare(t, nas_ok, users)
    \/ \E t \in 1..(nextId.task - 1) : ScanNextUser(t)
    \/ \E t \in 1..(nextId.task - 1), raises \in BOOLEAN : ScanFileBegin(t, raises)
    \/ \E t \in 1..(nextId.task - 1) : ScanFileCommit(t)
    \/ \E t \in 1..(nextId.task - 1) : ScanComplete(t)
    \/ \E t \in 1..(nextId.task - 1) : ScanFault(t)
    \/ \E t \in 1..(nextId.task - 1) : Redeliver(t)

SpecRedelivery == InitRedelivery /\ [][NextRedelivery]_vars

-----------------------------------------------------------------------------
(* Specification of one job run by one worker execution, with every fault the
   task can meet *)

WorkerStep ==
    \/ \E t \in 1..(nextId.task - 1) : AIStart(t)
    \/ \E t \in 1..(nextId.task - 1) : AISelect(t)
    \/ \E t \in 1..(nextId.task - 1) : AIItem(t)
    \/ \E t \in 1..(nextId.task - 1) : AIComplete(t)
    \/ \E t \in 1..(nextId.task - 1) : ScanStart(t)
    \/ \E t \in 1..(nextId.task - 1), nas_ok \in BOOLEAN :
          \E users \in (IF tasks[t].user_id # NoUser
                        THEN {<<tasks[t].user_id>>}
                        ELSE Orders(Users)) : ScanPrepare(t, nas_ok, users)
    \/ \E t \in 1..(nextId.task - 1) : ScanNextUser(t)
    \/ \E t \in 1..(nextId.task - 1), raises \in BOOLEAN : ScanFileBegin(t, raises)
    \/ \E t \in 1..(nextId.task - 1) : ScanFileCommit(t)
    \/ \E t \in 1..(nextId.task - 1) : ScanComplete(t)

WorkerFault ==
    \/ \E t \in 1..(nextId.task - 1) : AIFault(t)
    \/ \E t \in 1..(nextId.task - 1) : AIStartFault(t)
    \/ \E t \in 1..(nextId.task - 1) : AIHandlerFault(t)
    \/ \E t \in 1..(nextId.task - 1) : ScanFault(t)
    \/ \E t \in 1..(nextId.task - 1) : ScanStartFault(t)
    \/ \E t \in 1..(nextId.task - 1) : ScanHandlerFault(t)
    \/ \E t \in 1..(nextId.task - 1) : AIItemLate(t)
    \/ \E t \in 1..(nextId.task - 1) : ScanFileLate(t)

NextFault ==
    \/ WorkerStep
    \/ WorkerFault
    \/ \E u \in Users, j \in 1..(nextId.job - 1) : CancelJob(u, j)

SpecFault == InitRedelivery /\ [][NextFault]_vars

\* The worker runs a task it has taken until the task returns or raises: each
\* per-item operation terminates and the worker process is not killed.
SpecFaultLive == SpecFault /\ WF_vars(WorkerStep)

-----------------------------------------------------------------------------
(* Specification of the trash: media deletion next to people and a face job *)

NextTrash ==
    \/ \E u \in Users, f \in 1..(nextId.face - 1) : CreatePersonFromFace(u, f)
    \/ \E u \in Users, f \in 1..(nextId.face - 1), p \in 1..(nextId.person - 1) : AssignFace(u, f, p)
    \/ \E u \in Users, m \in 1..(nextId.media - 1), permanent \in BOOLEAN : DeleteMedia(u, m, permanent)
    \/ \E u \in Users : EmptyTrash(u)
    \/ \E old \in SUBSET (1..(nextId.media - 1)) : CleanupDeletedMedia(old)
    \/ \E t \in 1..(nextId.task - 1) : AIStart(t)
    \/ \E t \in 1..(nextId.task - 1) : AISelect(t)
    \/ \E t \in 1..(nextId.task - 1) : AIItem(t)
    \/ \E t \in 1..(nextId.task - 1) : AIItemDeleted(t)
    \/ \E t \in 1..(nextId.task - 1) : AIComplete(t)

SpecTrash == InitPeople /\ [][NextTrash]_vars

-----------------------------------------------------------------------------
(* Specification of trigger_scan requests that overlap *)

NextTriggerRace ==
    \/ \E u \in Users : TriggerScanBegin(u)
    \/ \E c \in BagToSet(calls) : TriggerScanEnd(c)
    \/ \E u \in Users, j \in 1..(nextId.job - 1) : CancelJob(u, j)

SpecTriggerRace == InitScan /\ [][NextTriggerRace]_vars

-----------------------------------------------------------------------------
(* Specification of assign_face and unassign_face requests that overlap *)

NextAssignRace ==
    \/ \E u \in Users, f \in 1..(nextId.face - 1) : CreatePersonFromFace(u, f)
    \/ \E u \in Users, f \in 1..(nextId.face - 1), p \in 1..(nextId.person - 1) :
          AssignFaceBegin(u, f, p)
    \/ \E c \in BagToSet(calls) : AssignFaceEnd(c)
    \/ \E u \in Users, f \in 1..(nextId.face - 1) : UnassignFaceBegin(u, f)
    \/ \E c \in BagToSet(calls) : UnassignFaceEnd(c)
    \/ \E u \in Users, p \in 1..(nextId.person - 1) : DeletePerson(u, p)
    \/ \E t \in 1..(nextId.task - 1) : AIStart(t)
    \/ \E t \in 1..(nextId.task - 1) : AISelect(t)
    \/ \E t \in 1..(nextId.task - 1) : AIItem(t)
    \/ \E t \in 1..(nextId.task - 1) : AIComplete(t)

SpecAssignRace == InitPeople /\ [][NextAssignRace]_vars

-----------------------------------------------------------------------------
(* Properties of the people handlers *)

\* C1: starting from a consistent store, after any sequence of assign_face,
\* unassign_face, create_person_from_face, merge_people, delete_person,
\* automatic face matching in process_ai_features and cluster_faces_task,
\* every Person's face_count equals the number of Face rows whose person_id is
\* that person's id.
C1_FaceCountIsLive ==
    \A p \in DOMAIN persons : persons[p].face_count = Cardinality(FacesOfPerson(faces, p))

\* The worker has just matched a detected face to a person who had a face
\* already, so that person now counts at least two.
C1_Witness ==
    /\ ev.op = "ai_item"
    /\ \E f \in DOMAIN faces :
          /\ faces[f].media_id = ev.det.media
          /\ faces[f].person_id # NULL
          /\ persons[faces[f].person_id].face_count >= 2

\* C2: merge_people(target A, sources [B, C]) with A, B, C distinct persons of
\* one owner ends with A.face_count equal to the sum of the pre-merge
\* face_counts, the sources no longer existing, every Face that pointed at a
\* source pointing at A, and every other Face unchanged.  Stated for every
\* source list that does not name the target.
C2_MergeMovesFaces ==
    [][(ev'.op = "merge_people" /\ ev'.subj \notin ev'.det) =>
          LET A == ev'.subj
              S == ev'.det
          IN /\ A \in DOMAIN persons'
             /\ persons'[A].face_count =
                   persons[A].face_count + SumOver([s \in S |-> persons[s].face_count], S)
             /\ S \cap DOMAIN persons' = {}
             /\ DOMAIN faces' = DOMAIN faces
             /\ \A f \in DOMAIN faces :
                   IF faces[f].person_id \in S
                   THEN faces'[f] = [faces[f] EXCEPT !.person_id = A]
                   ELSE faces'[f] = faces[f]]_vars

\* Two persons holding a face each have just been merged into a third who
\* held one too.
C2_Witness ==
    /\ ev.op = "merge_people"
    /\ ev.subj \notin ev.det
    /\ Cardinality(ev.det) = 2
    /\ persons[ev.subj].face_count = 3
    /\ Cardinality(FacesOfPerson(faces, ev.subj)) = 3

-----------------------------------------------------------------------------
(* Properties of the job life cycle and of the AI pipeline *)

\* C3: for every (scope, job type) pair at most one ProcessingJob with that
\* scope and type is pending or running at any time, whatever job-creating
\* requests are made.
C3_OneActiveJobPerScopeAndType ==
    \A j1, j2 \in DOMAIN jobs :
        (/\ jobs[j1].user_id = jobs[j2].user_id
         /\ jobs[j1].job_type = jobs[j2].job_type
         /\ jobs[j1].status \in Active
         /\ jobs[j2].status \in Active) => j1 = j2

\* C4: every ProcessingJob whose status is completed has processed_items equal
\* to total_items, with any number of items that failed individually.
C4_CompletedCountsEveryItem ==
    \A j \in DOMAIN jobs :
        jobs[j].status = "completed" => jobs[j].processed_items = jobs[j].total_items

\* C5: completed, failed and cancelled are terminal: no step changes the
\* status of a job that has one of them.
C5_TerminalStatusIsFinal ==
    [][\A j \in DOMAIN jobs :
          jobs[j].status \in Terminal => jobs'[j].status = jobs[j].status]_vars

\* C6: after cancel_job succeeds on a running job at most the unit in flight
\* is finished: once the worker has passed one media item of a job that was
\* already cancelled when the item began, its next step is not another item of
\* that job.
C6_CancelStopsTheWorker ==
    [][(ev.op = "ai_item" /\ ev.det.job_status = "cancelled") =>
          ~ (ev'.op = "ai_item" /\ ev'.subj = ev.subj)]_vars

\* C9: within one media item, when the embedding extraction completed
\* successfully and face or object extraction then raises, the item's
\* clip_processed flag is true afterwards.
C9_FinishedCapabilityStaysFinished ==
    [][(/\ ev'.op = "ai_item"
        /\ ev'.det.clip = "ok"
        /\ "raise" \in {ev'.det.face, ev'.det.yolo}) =>
          media'[ev'.det.media].clip_processed]_vars

\* C10: when a capability's inference fails for a media item, that
\* capability's completion flag stays false and the job's failure counter is
\* incremented (so the next job of that capability selects the item again).
C10_FailedInferenceStaysUnprocessed ==
    [][(/\ ev'.op = "ai_item"
        /\ "infer_fail" \in {ev'.det.clip, ev'.det.face, ev'.det.yolo}) =>
          LET M == media'[ev'.det.media]
          IN /\ ev'.det.clip = "infer_fail" => ~ M.clip_processed
             /\ ev'.det.face = "infer_fail" => ~ M.face_processed
             /\ ev'.det.yolo = "infer_fail" => ~ M.yolo_processed
             /\ \E t \in DOMAIN tasks :
                   /\ tasks[t].job = ev'.subj
                   /\ tasks'[t].failed = tasks[t].failed + 1]_vars

\* The process_type of the task of job j.
ProcessTypeOf(j) == tasks[CHOOSE t \in DOMAIN tasks : tasks[t].job = j].process_type

\* C11: a pass of a process_type "clip" job over a media item changes only the
\* embedding, the tags and clip_processed of that item and leaves every flag
\* of the other capabilities, every Face row, every Person and the detections
\* as they were; a pass of a process_type "face" job sets face_processed and
\* leaves clip_embedding and clip_processed as they were.
C11_ClipAndFaceKeepToTheirFields ==
    [][ev'.op = "ai_item" =>
          LET m == ev'.det.media
              pt == ProcessTypeOf(ev'.subj)
          IN /\ pt = "clip" =>
                   /\ faces' = faces
                   /\ persons' = persons
                   /\ \A k \in DOMAIN media : k # m => media'[k] = media[k]
                   /\ media[m] = [media'[m] EXCEPT !.clip_embedding = media[m].clip_embedding,
                                                   !.tags = media[m].tags,
                                                   !.clip_processed = media[m].clip_processed]
                   /\ media'[m].tags \subseteq media[m].tags \cup {"clip"}
             /\ pt = "face" =>
                   /\ media'[m].clip_embedding = media[m].clip_embedding
                   /\ media'[m].clip_processed = media[m].clip_processed
                   /\ ev'.det.face \in {"ok", "infer_fail"} => media'[m].face_processed]_vars

\* A face job has just processed a row that a clip job had embedded before.
C11_Witness ==
    /\ ev.op = "ai_item"
    /\ ProcessTypeOf(ev.subj) = "face"
    /\ ev.det.face = "ok"
    /\ media[ev.det.media].face_processed
    /\ media[ev.det.media].clip_processed
    /\ media[ev.det.media].clip_embedding
    /\ ~ media[ev.det.media].yolo_processed
    /\ FacesOfMedia(faces, ev.det.media) # {}

-----------------------------------------------------------------------------
(* Properties of the scanner *)

\* C7: for any owner and any content hash, at most one Media row that is not
\* deleted has that (owner_id, file_hash), after any scan runs, concurrent
\* ones included.
C7_OneRowPerOwnerAndHash ==
    \A m1, m2 \in DOMAIN media :
        (/\ media[m1].owner_id = media[m2].owner_id
         /\ media[m1].file_hash = media[m2].file_hash
         /\ ~ media[m1].is_deleted
         /\ ~ media[m2].is_deleted) => m1 = m2

\* C8: a scan that runs after a scan of the same scope completed without a
\* failure, over a tree in which no file changed, computes no content hash,
\* not even for a file the earlier scan rejected as an exact duplicate.
C8_RescanHashesNothing ==
    \A t \in DOMAIN tasks :
        (tasks[t].kind = "scan" /\ tasks[t].rescan) => tasks[t].hashed = {}

-----------------------------------------------------------------------------
(* Properties of the face_service functions *)

\* C12: cluster_faces on encodings whose pairwise distances are all within the
\* tolerance returns exactly one cluster that holds every index; and two
\* faces whose distance exceeds the tolerance, with no third face within the
\* tolerance of both, are never in the same cluster.
C12_ClusterFacesGroupsByTolerance ==
    ev.op = "cluster_faces()" =>
        LET encs == ev.subj
            clusters == ev.det
            n == Len(encs)
            Dist(i, j) == IF encs[i] >= encs[j] THEN encs[i] - encs[j] ELSE encs[j] - encs[i]
            Together(i, j) == \E c \in 1..Len(clusters) :
                                 i \in Range(clusters[c]) /\ j \in Range(clusters[c])
        IN /\ (n > 0 /\ \A i, j \in 1..n : Dist(i, j) <= Tolerance) =>
                 /\ Len(clusters) = 1
                 /\ Len(clusters[1]) = n
                 /\ Range(clusters[1]) = 1..n
           /\ \A i, j \in 1..n :
                 (/\ Dist(i, j) > Tolerance
                  /\ ~ \E k \in 1..n \ {i, j} :
                          Dist(k, i) <= Tolerance /\ Dist(k, j) <= Tolerance) =>
                    ~ Together(i, j)

\* cluster_faces has been called on three different encodings that lie within
\* the tolerance of one another and has returned one cluster of the three.
C12_Witness ==
    /\ ev.op = "cluster_faces()"
    /\ ev.subj = <<0, 60, 30>>
    /\ ev.det = <<<<1, 2, 3>>>>

-----------------------------------------------------------------------------
(* Properties of a job whose task may be delivered again *)

\* C13: the stored processed_items of a job never decreases and never exceeds
\* its total_items, also after a cancellation request and after the task has
\* been delivered again and run again for the same job.
C13_ProgressIsMonotoneAndBounded ==
    [][\A j \in DOMAIN jobs :
          /\ jobs'[j].processed_items >= jobs[j].processed_items
          /\ jobs'[j].processed_items <= jobs'[j].total_items]_vars

\* C15: cancel_job on a job whose status is completed, failed or cancelled is
\* refused and leaves every field of the job unchanged; on a pending or
\* running job it succeeds and sets the status to cancelled, nothing else.
C15_CancelOnlyFromPendingOrRunning ==
    [][ev'.op = "cancel_job" =>
          LET j == ev'.subj
          IN IF jobs[j].status \in {"completed", "failed", "cancelled"}
             THEN /\ ev'.det.response = 400
                  /\ jobs' = jobs
             ELSE /\ ev'.det.response = 200
                  /\ jobs[j].status \in {"pending", "running"}
                  /\ jobs' = [jobs EXCEPT ![j].status = "cancelled"]]_vars

\* cancel_job has just been refused on a completed job.
C15_Witness ==
    /\ ev.op = "cancel_job"
    /\ ev.det.response = 400
    /\ ev.det.status = "completed"
    /\ jobs[ev.subj].status = "completed"
    /\ jobs[ev.subj].completed_at

-----------------------------------------------------------------------------
(* Properties of the trash *)

\* C14: a failure while processing a single file or media item never moves
\* the job to failed: no step of a loop body over one item sets the status of
\* its job to failed.
C14_ItemFailureNeverFailsTheJob ==
    [][ev'.op \in {"ai_item", "ai_item_deleted", "scan_file", "scan_commit"} =>
          (jobs'[ev'.subj].status = "failed" => jobs[ev'.subj].status = "failed")]_vars

\* C16: when Face rows go because their Media row is physically deleted
\* (permanent delete_media, empty_trash, cleanup_deleted_media), every Person
\* whose face_count was right before still has face_count equal to the
\* number of Face rows that point at it.
C16_DeletingMediaKeepsFaceCount ==
    [][(/\ ev'.op \in {"delete_media", "empty_trash", "cleanup_deleted_media"}
        /\ \A p \in DOMAIN persons :
              persons[p].face_count = Cardinality(FacesOfPerson(faces, p))) =>
          \A p \in DOMAIN persons' :
              persons'[p].face_count = Cardinality(FacesOfPerson(faces', p))]_vars

-----------------------------------------------------------------------------
(* Properties of overlapping requests *)

\* C17: when trigger_scan requests of one user overlap, at most one of them
\* creates a job: two pending scan jobs of the same user are never reachable.
C17_NoTwoPendingScansOfOneUser ==
    \A u \in Users :
        Cardinality({j \in DOMAIN jobs : /\ jobs[j].user_id = u
                                         /\ jobs[j].job_type = "scan"
                                         /\ jobs[j].status = "pending"}) <= 1

\* C18: for any interleaving of assign_face, unassign_face and worker-side
\* face matching no increment or decrement of a Person's face_count is lost
\* and face_count is never negative: whenever no request is in flight, every
\* face_count is the number of Face rows that point at the person.
C18_NoCountUpdateIsLost ==
    /\ \A p \in DOMAIN persons : persons[p].face_count >= 0
    /\ calls = EmptyBag =>
          \A p \in DOMAIN persons :
              persons[p].face_count = Cardinality(FacesOfPerson(faces, p))

\* C19: in every reachable state each Person's cover_face_id is null or the
\* id of an existing Face whose person_id is that person.
C19_CoverFaceBelongsToThePerson ==
    \A p \in DOMAIN persons :
        \/ persons[p].cover_face_id = NULL
        \/ /\ persons[p].cover_face_id \in DOMAIN faces
           /\ faces[persons[p].cover_face_id].person_id = p

\* C20: a run of an extraction job leaves alone every media whose flag for a
\* capability is already true: the query of a single-capability job does not
\* select it, and an item step invokes no model of that capability for it and
\* adds or changes no embedding, Face row, detection or tag of it; so after a
\* re-delivery no media has more Face rows than one detection produces.
C20_FlaggedMediaIsLeftAlone ==
    [][ /\ \A t \in DOMAIN tasks :
              (tasks[t].kind = "ai" /\ tasks[t].pc = "started" /\ tasks'[t].pc = "loop") =>
                  \A i \in 1..Len(tasks'[t].items) :
                      LET M == media[tasks'[t].items[i]]
                          pt == tasks[t].process_type
                      IN /\ pt = "clip" => ~ M.clip_processed
                         /\ pt = "face" => ~ M.face_processed
                         /\ pt = "yolo" => ~ M.yolo_processed
                         /\ pt = "all" => ~ (M.clip_processed /\ M.face_processed
                                                              /\ M.yolo_processed)
        /\ ev'.op = "ai_item" =>
              LET m == ev'.det.media
                  M == media[m]
              IN /\ M.clip_processed =>
                        /\ ev'.det.clip = "skip"
                        /\ media'[m].clip_embedding = M.clip_embedding
                        /\ ("clip" \in media'[m].tags) = ("clip" \in M.tags)
                 /\ M.face_processed =>
                        /\ ev'.det.face = "skip"
                        /\ faces' = faces
                        /\ persons' = persons
                 /\ M.yolo_processed =>
                        /\ ev'.det.yolo = "skip"
                        /\ media'[m].yolo_detections = M.yolo_detections
                        /\ ("yolo" \in media'[m].tags) = ("yolo" \in M.tags)
        /\ \A m \in DOMAIN media' :
              Cardinality(FacesOfMedia(faces', m)) <= Len(FS[media'[m].original_path].faces)
      ]_vars

\* The re-delivered execution of the job has run the face and YOLO models over
\* "c", whose clip flag was true before, and has left its embedding alone.
C20_Witness ==
    /\ ev.op = "ai_item"
    /\ ev.det.media = 1
    /\ ev.det.clip = "skip"
    /\ ev.det.face = "ok"
    /\ ev.det.yolo = "ok"
    /\ \E t \in DOMAIN tasks : t > 1 /\ tasks[t].pc = "loop" /\ tasks[t].idx = 1
    /\ tasks[1].pc = "lost"
    /\ media[1].clip_embedding
    /\ Cardinality(FacesOfMedia(faces, 1)) = 1

\* C21: cluster_faces is single-linkage: two faces are in the same cluster
\* exactly when a chain of faces connects them in which each consecutive pair
\* is within the tolerance, whatever the order of the input.
C21_ClusterFacesIsSingleLinkage ==
    ev.op = "cluster_faces()" =>
        LET encs == ev.subj
            clusters == ev.det
            n == Len(encs)
            Dist(i, j) == IF encs[i] >= encs[j] THEN encs[i] - encs[j] ELSE encs[j] - encs[i]
            Together(i, j) == \E c \in 1..Len(clusters) :
                                 i \in Range(clusters[c]) /\ j \in Range(clusters[c])
            Chain1(i, j) == i = j \/ Dist(i, j) <= Tolerance
            Chain2(i, j) == \E k \in 1..n : Chain1(i, k) /\ Chain1(k, j)
            Chain4(i, j) == \E k \in 1..n : Chain2(i, k) /\ Chain2(k, j)
        IN \A i, j \in 1..n : Together(i, j) <=> Chain4(i, j)

\* C22: find_matching_person returns no match exactly when no known person is
\* within the tolerance of the face; otherwise it returns a person at the
\* least distance, and of several persons at that distance the earliest created.
C22_NearestPersonEarliestOnTies ==
    ev.op = "find_matching_person()" =>
        LET face == ev.subj.face_encoding
            enc == ev.subj.enc
            match == ev.det
            Dist(p) == IF enc[p] >= face THEN enc[p] - face ELSE face - enc[p]
            Within == {p \in DOMAIN enc : Dist(p) <= Tolerance}
        IN /\ match = NULL <=> Within = {}
           /\ match # NULL =>
                 /\ match \in Within
                 /\ \A p \in Within : Dist(match) <= Dist(p)
                 /\ \A p \in Within : Dist(p) = Dist(match) => match <= p

\* C23: detect_changes emits exactly one FileChange for every path of the
\* tree or of the signature store: NEW when only in the tree, DELETED when
\* only in the store, MODIFIED when in both with different signatures,
\* UNCHANGED when in both with equal signatures.
C23_OneChangePerPath ==
    ev.op = "detect_changes()" =>
        LET store == ev.subj.store
            tree == ev.subj.tree
            changes == ev.det
            Expected(path) ==
                IF path \notin DOMAIN store THEN "new"
                ELSE IF path \notin DOMAIN tree THEN "deleted"
                ELSE IF store[path] # tree[path] THEN "modified"
                ELSE "unchanged"
        IN /\ \A c \in changes : c.path \in DOMAIN store \cup DOMAIN tree
           /\ \A path \in DOMAIN store \cup DOMAIN tree :
                 /\ Cardinality({c \in changes : c.path = path}) = 1
                 /\ \A c \in changes : c.path = path => c.change_type = Expected(path)

\* C24: a Person does not outlive its last face: when assign_face,
\* unassign_face, create_person_from_face or merge_people moves the last Face
\* away from a person, that Person row is gone after the step.
C24_PersonGoesWithItsLastFace ==
    [][ev'.op \in {"assign_face", "unassign_face", "create_person_from_face", "merge_people"} =>
          \A p \in DOMAIN persons :
              (FacesOfPerson(faces, p) # {} /\ FacesOfPerson(faces', p) = {}) =>
                  p \notin DOMAIN persons'
      ]_vars

-----------------------------------------------------------------------------
(* Properties of a job under the faults of its task *)

\* C25: when a fault of the task as a whole occurs while the job is running
\* (the NAS is not accessible, or an exception escapes the per-item handling),
\* the job is failed after it, with an error message and completed_at set; and
\* a failed job never becomes completed.
C25_FaultFailsTheJob ==
    [][\A j \in DOMAIN jobs :
          /\ ( /\ jobs[j].status = "running"
               /\ ev'.subj = j
               /\ \/ ev'.op \in {"task_fault", "task_fault_lost", "ai_item_deleted"}
                  \/ ev'.op = "scan_prepare" /\ ev'.det = FALSE ) =>
                 /\ jobs'[j].status = "failed"
                 /\ jobs'[j].error_message # ""
                 /\ jobs'[j].completed_at
          /\ jobs[j].status = "failed" => jobs'[j].status # "completed"
      ]_vars

\* C26: each detected face of a media item is stored as exactly one Face row,
\* also when two jobs with the face capability run over the item at the same
\* time: no media has more Face rows than faces are detected in its file, and
\* no person's face_count exceeds the number of different detected faces that
\* point at it.
C26_OneFaceRowPerDetectedFace ==
    /\ \A m \in DOMAIN media :
          Cardinality(FacesOfMedia(faces, m)) <= Len(FS[media[m].original_path].faces)
    /\ \A p \in DOMAIN persons :
          persons[p].face_count <=
              Cardinality({<<faces[f].media_id, faces[f].encoding>> : f \in FacesOfPerson(faces, p)})

\* C27: in every reachable state every non-null person_id of a Face is the id
\* of an existing Person.
C27_FacePersonExists ==
    \A f \in DOMAIN faces :
        faces[f].person_id # NULL => faces[f].person_id \in DOMAIN persons

\* The second request served has deleted the only person, made by the first
\* from a face, and that face is unassigned again.
C27_Witness ==
    /\ ev.op = "delete_person"
    /\ requests = 2
    /\ nextId.person = 2
    /\ DOMAIN persons = {}
    /\ \A f \in DOMAIN faces : faces[f].person_id = NULL

\* C28: every job that is completed by scan_and_index_media or
\* process_ai_features, its task delivered once, has processed_items +
\* failed_items = total_items: each enumerated item is counted in exactly one
\* of the two counters.
C28_CompletedCountsAddUp ==
    \A j \in DOMAIN jobs :
        jobs[j].status = "completed" =>
            jobs[j].processed_items + jobs[j].failed_items = jobs[j].total_items

\* C29: every job whose task has started executing eventually is completed,
\* failed or cancelled, provided the worker keeps running the task: no path
\* through the task, with any fault it can meet, leaves the job pending or
\* running for ever.
C29_StartedJobEnds ==
    \A t \in 1..MaxDeliveries :
        (t \in DOMAIN tasks /\ tasks[t].pc # "queued")
            ~> (t \in DOMAIN tasks /\ jobs[tasks[t].job].status \in Terminal)

\* C30: faces and persons never cross owners: in every reachable state every
\* Face with a non-null person_id belongs to a Media whose owner is the owner
\* of that Person.
C30_FaceAndPersonShareTheOwner ==
    \A f \in DOMAIN faces :
        (faces[f].person_id # NULL /\ faces[f].person_id \in DOMAIN persons) =>
            media[faces[f].media_id].owner_id = persons[faces[f].person_id].owner_id

\* The worker has just detected the face of "x" of u2 while u1 has a person
\* with exactly that encoding, and the face has been stored unassigned.
C30_Witness ==
    /\ ev.op = "ai_item"
    /\ ev.det.media = 2
    /\ ev.det.face = "ok"
    /\ \E p \in DOMAIN persons : persons[p].owner_id = "u1" /\ persons[p].face_embedding = 0
    /\ \E f \in DOMAIN faces :
          faces[f].media_id = 2 /\ faces[f].encoding = 0 /\ faces[f].person_id = NULL

====
